---- MODULE Spec2Model ----
(***************************************************************************)
(* Model of the three one-shot migration scripts of safecast-new-map:      *)
(*   migrate_all_data.py, migrate_spectra.py, update_spectra_columns.py.   *)
(* Each script is a linear run of main(): pre-flight, confirmation,        *)
(* row-by-row phases inside transactions, verification, exit.              *)
(*                                                                         *)
(* The SQLite source is read-only; the PostgreSQL target is modelled twice:*)
(* pg_committed (what the server holds durably) and pg_conn (what the      *)
(* script's connection sees, including its uncommitted writes).            *)
(***************************************************************************)
EXTENDS Integers, Sequences, FiniteSets, TLC

\* ------------------------------------------------------------------ bounds
\* Marker ids are 1..MaxMarker where the flags vary and 1..MaxSpeedMarker where
\* the speeds vary.  Spectrum ids are 1..MaxSpectrum for the two copying
\* scripts and 1..MaxUpdateSpectrum for update_spectra_columns.py, whose rows
\* vary in more columns.
MaxMarker == 3
MaxSpeedMarker == 4
MaxSpectrum == 3
MaxUpdateSpectrum == 2
\* Number of times the same script is run one after the other.
MaxRuns == 2
\* BATCH_SIZE of migrate_all_data.py (10000 there), scaled to the model.
BATCH_SIZE == 2
\* Rows per statement of psycopg2.extras.execute_values (its page_size, 100
\* by default), scaled to the model: a batch is sent as BATCH_SIZE / PAGE_SIZE
\* statements inside one transaction.
PAGE_SIZE == 1

MarkerIds == 1..MaxMarker
SpeedMarkerIds == 1..MaxSpeedMarker
SpectrumIds == 1..MaxSpectrum
UpdateSpectrumIds == 1..MaxUpdateSpectrum

Scripts == {"migrate_all_data", "migrate_spectra", "update_spectra_columns"}

\* ------------------------------------------------------------------ values
\* A nullable scalar is a sequence of length <= 1: <<>> is NULL, <<v>> is v.
NULL == <<>>
Some(v) == <<v>>
IsNull(x) == x = <<>>

\* A Python/SQL value of the channels column: None, a list of integers, a
\* str (sequence of one-character strings), bytes (a BLOB), or an int.
\* Both payload fields are always present so that values compare.
PyNone == [kind |-> "none", arr |-> <<>>, text |-> <<>>]
PyList(a) == [kind |-> "list", arr |-> a, text |-> <<>>]
PyStr(t) == [kind |-> "str", arr |-> <<>>, text |-> t]
PyBytes(t) == [kind |-> "bytes", arr |-> <<>>, text |-> t]
PyInt(n) == [kind |-> "int", arr |-> <<n>>, text |-> <<>>]

Digits == {"1", "2", "3"}
DigitVal(c) == CASE c = "1" -> 1 [] c = "2" -> 2 [] c = "3" -> 3

\* The commas of a text split it into fields: the fields of <<"1",",","2">>
\* are <<"1">> and <<"2">>.
RECURSIVE SplitCommas(_)
SplitCommas(t) ==
    IF \A k \in 1..Len(t) : t[k] # ","
    THEN << t >>
    ELSE LET k == CHOOSE j \in 1..Len(t) :
                      t[j] = "," /\ \A h \in 1..(j - 1) : t[h] # ","
         IN << SubSeq(t, 1, k - 1) >> \o SplitCommas(SubSeq(t, k + 1, Len(t)))

IsNumber(t) == Len(t) > 0 /\ \A k \in 1..Len(t) : t[k] \in Digits

RECURSIVE NumberVal(_)
NumberVal(t) ==
    IF Len(t) = 0 THEN 0
    ELSE 10 * NumberVal(SubSeq(t, 1, Len(t) - 1)) + DigitVal(t[Len(t)])

\* json.loads on a text over the alphabet [ ] , 1 2 3 (no nesting): a number,
\* or a flat array of numbers.  ok = FALSE stands for the raised ValueError.
json_loads(t) ==
    IF IsNumber(t)
    THEN [ok |-> TRUE, value |-> PyInt(NumberVal(t))]
    ELSE IF Len(t) >= 2 /\ t[1] = "[" /\ t[Len(t)] = "]"
    THEN LET inner == SubSeq(t, 2, Len(t) - 1)
             parts == SplitCommas(inner)
         IN IF inner = <<>>
            THEN [ok |-> TRUE, value |-> PyList(<<>>)]
            ELSE IF \A k \in 1..Len(parts) : IsNumber(parts[k])
            THEN [ok |-> TRUE,
                  value |-> PyList([k \in 1..Len(parts) |-> NumberVal(parts[k])])]
            ELSE [ok |-> FALSE, value |-> PyNone]
    ELSE [ok |-> FALSE, value |-> PyNone]

\* str.lower() on the letters the answers to a prompt are made of.
LowerChar(c) ==
    CASE c = "Y" -> "y"
      [] c = "E" -> "e"
      [] c = "S" -> "s"
      [] c = "N" -> "n"
      [] c = "O" -> "o"
      [] OTHER -> c
lower(t) == [k \in 1..Len(t) |-> LowerChar(t[k])]

\* The literal 'yes' the answers are compared with.
Yes == << "y", "e", "s" >>
\* What the operator may type at a prompt.
Answers == {Yes, << "Y", "E", "S" >>, << "n", "o" >>}

\* The ids of a set in ascending order (ORDER BY id).
RECURSIVE SortedSeq(_)
SortedSeq(S) ==
    IF S = {} THEN <<>>
    ELSE LET m == CHOOSE x \in S : \A y \in S : x <= y
         IN << m >> \o SortedSeq(S \ {m})

\* The orders in which a query without ORDER BY can return the ids of a set.
Orders(S) ==
    {f \in [1..Cardinality(S) -> S] : \A i, j \in DOMAIN f : i # j => f[i] # f[j]}

\* ------------------------------------------------------------------- state
VARIABLES
    script,             \* which of the three scripts is being run
    sqlite_markers,     \* source table markers: id -> [has_spectrum, speed]
    sqlite_spectra,     \* source table spectra: id -> [marker_id, channels, channel_count]
    pg_committed,       \* target as committed: [markers, spectra]
    pg_conn,            \* target as seen by the script's connection (open transaction included)
    pc,                 \* position of main()
    run,                \* number of the current run of the script
    exit_code,          \* process exit status once pc = "exited"
    outcome,            \* why the run ended
    stopped_at,         \* position of main() when the run ended
    spectra_to_migrate, \* migrate_all_data.py line 109
    speed_to_migrate,   \* migrate_all_data.py line 110
    todo,               \* rows of the current loop not yet visited, in fetch order
    inserted_count, skipped_count, updated_count,
    offset,             \* OFFSET of the next speed batch
    batches_committed,  \* speed batches committed by the current run
    run_start,          \* pg_committed when the current run started
    phase_start,        \* pg_conn when the current row loop started
    speed_start,        \* target markers when the speed phase of the run started
    discarded,          \* TRUE when the run ended with uncommitted writes, which are lost
    prev,               \* how the previous run ended, whether it changed the
                        \* target and, when it was interrupted in the speed
                        \* phase, the target it started from
    io,                 \* what the current run has done to the stores so far:
                        \* connections attempted and stores queried
    swallowed,          \* TRUE when the bare except of update_spectra_columns.py
                        \* has caught a Ctrl-C in the current run
    answered            \* the answers typed at the prompts of the current run

vars == << script, sqlite_markers, sqlite_spectra, pg_committed, pg_conn, pc, run,
           exit_code, outcome, stopped_at, spectra_to_migrate, speed_to_migrate,
           todo, inserted_count, skipped_count, updated_count, offset,
           batches_committed, run_start, phase_start, speed_start, discarded,
           prev, io, swallowed, answered >>

\* ----------------------------------------------------------------- queries
\* speed IS NOT NULL AND speed > 0
HasSpeed(s) == ~IsNull(s) /\ s[1] > 0

\* SELECT COUNT(*) FROM spectra
CountSpectra(spectra) == Cardinality(DOMAIN spectra)

\* SELECT COUNT(*) FROM markers WHERE speed IS NOT NULL AND speed > 0
CountMarkersSpeed(markers) ==
    Cardinality({m \in DOMAIN markers : HasSpeed(markers[m].speed)})

\* SELECT COUNT(*) FROM spectra WHERE channels IS NULL
CountNullChannels(spectra) ==
    Cardinality({s \in DOMAIN spectra : spectra[s].channels = PyNone})

\* SELECT id FROM markers WHERE has_spectrum = 1
SqliteFlaggedMarkers ==
    {m \in DOMAIN sqlite_markers : sqlite_markers[m].has_spectrum = 1}

\* SELECT id, speed FROM markers WHERE speed IS NOT NULL AND speed > 0 ORDER BY id
SqliteSpeedIds ==
    SortedSeq({m \in DOMAIN sqlite_markers : HasSpeed(sqlite_markers[m].speed)})

\* ... LIMIT BATCH_SIZE OFFSET off
SpeedBatch(off) ==
    SubSeq(SqliteSpeedIds, off + 1,
           IF off + BATCH_SIZE < Len(SqliteSpeedIds)
           THEN off + BATCH_SIZE ELSE Len(SqliteSpeedIds))

\* The first page of the rows execute_values has still to send, and the rest.
FirstPage(rows) == SubSeq(rows, 1, IF PAGE_SIZE < Len(rows) THEN PAGE_SIZE ELSE Len(rows))
AfterFirstPage(rows) == SubSeq(rows, Len(FirstPage(rows)) + 1, Len(rows))

\* The rows fetched before the row loop of each script.
FetchedSpectra ==
    IF script = "update_spectra_columns"
    THEN SortedSeq({s \in DOMAIN sqlite_spectra :
                        sqlite_spectra[s].channels # PyNone})
    ELSE SortedSeq(DOMAIN sqlite_spectra)

\* -------------------------------------------------------------- statements
\* A slip in the INSERT: the id column is left out of the column list, so the
\* target numbers the new row itself.
InsertWithSerialId(spectra, id, row) ==
    IF id \in DOMAIN spectra THEN spectra
    ELSE LET fresh == CHOOSE n \in 1..(Cardinality(DOMAIN spectra) + 1) :
                          n \notin DOMAIN spectra
         IN (fresh :> row) @@ spectra

\* A slip in the existence check: it never finds the row.
NeverExists(spectra, id) == FALSE

\* SELECT id FROM spectra WHERE id = %s, then fetchone()
SpectrumExists(spectra, id) == id \in DOMAIN spectra

\* One turn of the insert loop on the table: a row whose id exists is left
\* alone, any other is inserted under its source id, its columns passed
\* through as they are.
InsertIfAbsent(spectra, id, row) ==
    IF SpectrumExists(spectra, id) THEN spectra ELSE (id :> row) @@ spectra

\* A slip in the flag statement: an upsert (INSERT ... ON CONFLICT (id) DO
\* UPDATE), which creates the marker the target does not hold.
UpsertFlag(markers, id) ==
    IF id \in DOMAIN markers
    THEN [markers EXCEPT ![id].has_spectrum = Some(TRUE)]
    ELSE (id :> [has_spectrum |-> Some(TRUE), speed |-> NULL, rest |-> "default"])
             @@ markers

\* UPDATE markers SET has_spectrum = true WHERE id = %s AND has_spectrum = false
SetFlagWhereFalse(markers, id) ==
    IF id \in DOMAIN markers /\ markers[id].has_spectrum = Some(FALSE)
    THEN [markers EXCEPT ![id].has_spectrum = Some(TRUE)]
    ELSE markers

\* UPDATE markers SET has_spectrum = true WHERE id = %s
SetFlag(markers, id) ==
    IF id \in DOMAIN markers
    THEN [markers EXCEPT ![id].has_spectrum = Some(TRUE)]
    ELSE markers

\* UPDATE markers AS m SET speed = v.speed FROM (VALUES ...) AS v(id, speed)
\* WHERE m.id = v.id AND (m.speed IS NULL OR m.speed = 0)
\* batch is a sequence of source marker ids; v.speed is the source speed.
UpdateSpeedBatch(markers, batch) ==
    [m \in DOMAIN markers |->
        IF (\E k \in 1..Len(batch) : batch[k] = m)
           /\ (IsNull(markers[m].speed) \/ markers[m].speed = Some(0))
        THEN [markers[m] EXCEPT !.speed = sqlite_markers[m].speed]
        ELSE markers[m]]

\* UPDATE spectra SET channels = %s, channel_count = %s, ... WHERE id = %s
UpdateSpectrum(spectra, id, channels, channel_count) ==
    IF id \in DOMAIN spectra
    THEN [spectra EXCEPT ![id].channels = channels,
                         ![id].channel_count = channel_count]
    ELSE spectra

\* The channels value update_spectra_columns.py derives from a source value:
\* a str is parsed, anything else is passed through.
ParseChannels(v) ==
    IF v.kind = "str" THEN json_loads(v.text) ELSE [ok |-> TRUE, value |-> v]

\* ----------------------------------------------------------- initial states
SrcMarker(hs, sp) == [has_spectrum |-> hs, speed |-> sp]
\* A target markers row without its id.  rest stands for the columns of the
\* row that no statement of the scripts names.
PgMarker(hs, sp) == [has_spectrum |-> hs, speed |-> sp, rest |-> "as_found"]
\* A spectra row without its id.  channel_count stands for the scalar columns
\* that travel with channels (energy_min_kev, energy_max_kev, live_time_sec,
\* real_time_sec): the scripts read and write them together.  The columns only
\* the INSERT carries (device_model ... created_at) are left out; a created_at
\* that datetime.fromtimestamp rejects is one of the errors of Fail.
Spectrum(m, ch, n) == [marker_id |-> m, channels |-> ch, channel_count |-> n]

\* All functions from a subset of ids to rows: a table with primary key id.
Tables(ids, rows) == UNION {[D -> rows] : D \in SUBSET ids}

\* Texts of a source channels column: '[1,2]', the truncated '[1,' that
\* json.loads rejects, and '12', which is JSON but no array.
GoodText == << "[", "1", ",", "2", "]" >>
BadText == << "[", "1", "," >>
NumberText == << "1", "2" >>

\* Target marker tables in which marker 1 may be missing or hold any of
\* unusual, and every other marker holds one of usual.
MarkerTables(ids, usual, unusual) ==
    {t \in Tables(ids, usual \cup unusual) :
        /\ ids \ {1} \subseteq DOMAIN t
        /\ \A m \in DOMAIN t : t[m] \notin usual => m = 1}

\* Marker tables in which only has_spectrum varies.  A missing target row and
\* a NULL target flag are tried on marker 1.
FlagMarkers ==
    [src : [MarkerIds -> {SrcMarker(0, NULL), SrcMarker(1, NULL)}],
     pg : MarkerTables(MarkerIds,
                       {PgMarker(Some(FALSE), NULL), PgMarker(Some(TRUE), NULL)},
                       {PgMarker(NULL, NULL)})]

\* Marker tables in which only speed varies.  A source speed of zero, a
\* missing target row and a target speed of zero are tried on marker 1, a
\* positive target speed on markers 1 and 2.
SpeedMarkers ==
    [src : {f \in [SpeedMarkerIds -> {SrcMarker(0, NULL), SrcMarker(0, Some(0)),
                                      SrcMarker(0, Some(5))}] :
               \A m \in SpeedMarkerIds : f[m].speed = Some(0) => m = 1},
     pg : {t \in MarkerTables(SpeedMarkerIds,
                              {PgMarker(Some(FALSE), NULL), PgMarker(Some(FALSE), Some(9))},
                              {PgMarker(Some(FALSE), Some(0))}) :
              \A m \in DOMAIN t : HasSpeed(t[m].speed) => m <= 2}]

\* One flagged source marker, no speed anywhere.
PlainMarkers ==
    {[src |-> [m \in MarkerIds |-> SrcMarker(IF m = 1 THEN 1 ELSE 0, NULL)],
      pg |-> [m \in MarkerIds |-> PgMarker(Some(FALSE), NULL)]]}

\* Spectra tables for the two copying scripts: which ids are on each side,
\* and whether a target row links to the same marker as the source row; a
\* target row that links to another marker is tried on id 2.
CopySpectra ==
    [src : Tables(SpectrumIds, {Spectrum(1, PyStr(GoodText), Some(2))}),
     pg : {t \in Tables(SpectrumIds, {Spectrum(1, PyList(<<1, 2>>), Some(2)),
                                      Spectrum(2, PyList(<<3>>), Some(1))}) :
              \A id \in DOMAIN t : t[id].marker_id = 2 => id = 2}]

\* No spectra on either side.
NoSpectra == {[src |-> <<>>, pg |-> <<>>]}

\* No spectra in the target, at most one in the source.
FewSpectra ==
    [src : Tables({1}, {Spectrum(1, PyStr(GoodText), Some(2))}),
     pg : {<<>>}]

\* Spectra tables for update_spectra_columns.py: every representation of
\* channels in the source, populated and unpopulated rows in the target.  In
\* the source a NULL and a text that is JSON but no array are tried on id 1,
\* a BLOB on id 2 and a text that does not parse on ids 1 and 2; in the
\* target a row that holds the raw text is tried on id 1 and populated rows
\* on ids 1 and 2.
UpdateSpectra ==
    [src : {t \in Tables(UpdateSpectrumIds, {Spectrum(1, PyNone, NULL),
                                            Spectrum(1, PyStr(GoodText), Some(2)),
                                            Spectrum(1, PyStr(BadText), Some(2)),
                                            Spectrum(1, PyStr(NumberText), Some(1)),
                                            Spectrum(1, PyBytes(<<"1">>), Some(1))}) :
               \A id \in DOMAIN t :
                   /\ t[id].channels \in {PyNone, PyStr(NumberText)} => id = 1
                   /\ t[id].channels.kind = "bytes" => id = 2
                   /\ t[id].channels = PyStr(BadText) => id <= 2},
     pg : {t \in Tables(UpdateSpectrumIds, {Spectrum(1, PyNone, NULL),
                                            Spectrum(1, PyList(<<3>>), Some(1)),
                                            Spectrum(1, PyStr(GoodText), Some(2))}) :
              \A id \in DOMAIN t :
                  /\ t[id].channels.kind = "str" => id = 1
                  /\ t[id].channels # PyNone => id <= 2}]

Inputs(scr, markers, spectra) ==
    {[script |-> scr, sm |-> m.src, pm |-> m.pg, ss |-> s.src, ps |-> s.pg] :
        m \in markers, s \in spectra}

Scenarios ==
    Inputs("migrate_all_data", PlainMarkers, CopySpectra)
    \cup Inputs("migrate_all_data", FlagMarkers, FewSpectra)
    \cup Inputs("migrate_all_data", SpeedMarkers, NoSpectra)
    \cup Inputs("migrate_spectra", PlainMarkers, CopySpectra)
    \cup Inputs("migrate_spectra", FlagMarkers, FewSpectra)
    \cup Inputs("update_spectra_columns", PlainMarkers, UpdateSpectra)

NoPrev(db) == [how |-> "none", batches |-> 0, changed |-> FALSE, start |-> db]

Init ==
    \E sc \in Scenarios :
        /\ script = sc.script
        /\ sqlite_markers = sc.sm
        /\ sqlite_spectra = sc.ss
        /\ pg_committed = [markers |-> sc.pm, spectra |-> sc.ps]
        /\ pg_conn = [markers |-> sc.pm, spectra |-> sc.ps]
        /\ pc = "start"
        /\ run = 1
        /\ exit_code = 0
        /\ outcome = "running"
        /\ stopped_at = "none"
        /\ spectra_to_migrate = 0
        /\ speed_to_migrate = 0
        /\ todo = <<>>
        /\ inserted_count = 0
        /\ skipped_count = 0
        /\ updated_count = 0
        /\ offset = 0
        /\ batches_committed = 0
        /\ run_start = [markers |-> sc.pm, spectra |-> sc.ps]
        /\ phase_start = [markers |-> sc.pm, spectra |-> sc.ps]
        /\ speed_start = sc.pm
        /\ discarded = FALSE
        /\ prev = NoPrev([markers |-> sc.pm, spectra |-> sc.ps])
        /\ io = {}
        /\ swallowed = FALSE
        /\ answered = {}

\* ------------------------------------------------------------------ actions
source == << script, sqlite_markers, sqlite_spectra >>
runs == << run, batches_committed, run_start, discarded, prev, swallowed >>
history == << runs, phase_start, speed_start, io, answered >>
counters == << inserted_count, skipped_count, updated_count, offset >>
plan == << spectra_to_migrate, speed_to_migrate >>

\* The status the interpreter ends with after sys.exit(code), a return from
\* main() or an uncaught exception: it flushes sys.stdout on the way out, and
\* when that fails (buffered output that cannot be written) the status is 120
\* whatever code was.
ExitStatus(code, flushed) == IF flushed THEN code ELSE 120

\* The process ends with status after doing did: its connection is closed,
\* which discards whatever the open transaction wrote, and its local variables
\* are gone.
Ended(status, why, did) ==
    /\ pc' = "exited"
    /\ io' = io \cup did
    /\ exit_code' = status
    /\ outcome' = why
    /\ stopped_at' = pc
    /\ pg_conn' = pg_committed
    /\ discarded' = (pg_conn # pg_committed)
    /\ todo' = <<>>
    /\ inserted_count' = 0
    /\ skipped_count' = 0
    /\ updated_count' = 0
    /\ offset' = 0
    /\ spectra_to_migrate' = 0
    /\ speed_to_migrate' = 0
    /\ UNCHANGED << source, pg_committed, run, batches_committed, run_start,
                    phase_start, speed_start, prev, swallowed >>

\* sys.exit(code), or the end of main(), after doing did.
ExitAfter(code, why, did) ==
    /\ \E flushed \in BOOLEAN : Ended(ExitStatus(code, flushed), why, did)
    /\ UNCHANGED answered

Exit(code, why) == ExitAfter(code, why, {})

Goto(next) ==
    /\ pc' = next
    /\ UNCHANGED << exit_code, outcome, stopped_at >>

\* A slip in the order of the first steps: sqlite3.connect comes before the
\* test for the file.
ConnectBeforeCheck ==
    /\ pc = "start"
    /\ \E exists \in BOOLEAN :
        IF exists
        THEN /\ Goto(IF script = "update_spectra_columns"
                     THEN "connect_pg" ELSE "analyze_sqlite")
             /\ io' = io \cup {"sqlite_connect"}
             /\ UNCHANGED << source, pg_committed, pg_conn, plan, todo, counters, runs,
                             phase_start, speed_start, answered >>
        ELSE ExitAfter(1, "source_missing", {"sqlite_connect"})

\* if not os.path.exists(SQLITE_DB): sys.exit(1); then sqlite3.connect
CheckSqliteDb ==
    /\ pc = "start"
    /\ \E exists \in BOOLEAN :
        IF exists
        THEN /\ Goto(IF script = "update_spectra_columns"
                     THEN "connect_pg" ELSE "analyze_sqlite")
             /\ io' = io \cup {"sqlite_connect"}
             /\ UNCHANGED << source, pg_committed, pg_conn, plan, todo, counters, runs,
                             phase_start, speed_start, answered >>
        ELSE Exit(1, "source_missing")

\* The counts read from SQLite and the "Nothing to migrate" exit.
AnalyzeSqlite ==
    /\ pc = "analyze_sqlite"
    /\ LET sqlite_spectra_count == CountSpectra(sqlite_spectra)
           sqlite_markers_speed == CountMarkersSpeed(sqlite_markers)
           nothing == IF script = "migrate_all_data"
                      THEN sqlite_spectra_count = 0 /\ sqlite_markers_speed = 0
                      ELSE sqlite_spectra_count = 0
       IN IF nothing
          THEN ExitAfter(0, "nothing_to_do", {"sqlite_query"})
          ELSE /\ Goto("connect_pg")
               /\ io' = io \cup {"sqlite_query"}
               /\ UNCHANGED << source, pg_committed, pg_conn, plan, todo, counters, runs,
                               phase_start, speed_start, answered >>

\* psycopg2.connect inside try/except: sys.exit(1) when it raises.
ConnectPostgres ==
    /\ pc = "connect_pg"
    /\ \E connected \in BOOLEAN :
        IF connected
        THEN /\ Goto("analyze_pg")
             /\ io' = io \cup {"pg_connect"}
             /\ UNCHANGED << source, pg_committed, pg_conn, plan, todo, counters, runs,
                             phase_start, speed_start, answered >>
        ELSE ExitAfter(1, "connect_failed", {"pg_connect"})

\* The counts read from PostgreSQL and what follows from them.
AnalyzePostgres ==
    /\ pc = "analyze_pg"
    /\ CASE script = "migrate_all_data" ->
              LET stm == CountSpectra(sqlite_spectra) - CountSpectra(pg_conn.spectra)
                  vtm == CountMarkersSpeed(sqlite_markers)
                             - CountMarkersSpeed(pg_conn.markers)
              IN /\ spectra_to_migrate' = stm
                 /\ speed_to_migrate' = vtm
                 /\ Goto(IF stm <= 0 /\ vtm <= 0 THEN "confirm_recheck" ELSE "confirm")
                 /\ io' = io \cup {"pg_query"}
                 /\ UNCHANGED << source, pg_committed, pg_conn, todo, counters, runs,
                                 phase_start, speed_start, answered >>
         [] script = "migrate_spectra" ->
              /\ Goto("confirm")
              /\ io' = io \cup {"pg_query"}
              /\ UNCHANGED << source, pg_committed, pg_conn, plan, todo, counters, runs,
                              phase_start, speed_start, answered >>
         [] script = "update_spectra_columns" ->
              IF CountNullChannels(pg_conn.spectra) = 0
              THEN ExitAfter(0, "nothing_to_do", {"pg_query"})
              ELSE /\ Goto("confirm")
                   /\ io' = io \cup {"pg_query"}
                   /\ UNCHANGED << source, pg_committed, pg_conn, plan, todo, counters,
                                   runs, phase_start, speed_start, answered >>

\* The answer confirm typed at a prompt: the run goes on to next when
\* confirm.lower() is 'yes', otherwise "cancelled" is printed and sys.exit(0).
Answer(confirm, next) ==
    IF lower(confirm) # Yes
    THEN /\ \E flushed \in BOOLEAN : Ended(ExitStatus(0, flushed), "cancelled", {})
         /\ answered' = answered \cup {confirm}
    ELSE /\ Goto(next)
         /\ answered' = answered \cup {confirm}
         /\ UNCHANGED << source, pg_committed, pg_conn, plan, todo, counters, runs,
                         phase_start, speed_start, io >>

\* "Do you want to re-check and update anyway? (yes/no)"
ConfirmRecheck ==
    /\ pc = "confirm_recheck"
    /\ \E confirm \in Answers : Answer(confirm, "confirm")

\* A slip in the prompt: "cancelled" is printed and the run goes on.
ConfirmWithoutExit ==
    /\ pc = "confirm"
    /\ \E confirm \in Answers :
        /\ pc' = "spectra"
        /\ outcome' = IF lower(confirm) # Yes THEN "cancelled" ELSE outcome
        /\ answered' = answered \cup {confirm}
        /\ UNCHANGED << exit_code, stopped_at, source, pg_committed, pg_conn, plan, todo,
                        counters, runs, phase_start, speed_start, io >>

\* "Continue with migration? (yes/no)" / "Update N spectral records? (yes/no)"
Confirm ==
    /\ pc = "confirm"
    /\ \E confirm \in Answers : Answer(confirm, "spectra")

\* fetchall() of the source spectra, BEGIN, counters to zero.
FetchSpectra ==
    /\ pc = "spectra"
    /\ script = "migrate_all_data" => spectra_to_migrate > 0
    /\ todo' = FetchedSpectra
    /\ inserted_count' = 0
    /\ skipped_count' = 0
    /\ updated_count' = 0
    /\ phase_start' = pg_conn
    /\ io' = io \cup {"sqlite_query"}
    /\ Goto(IF script = "update_spectra_columns" THEN "update_loop" ELSE "insert")
    /\ UNCHANGED << source, pg_committed, pg_conn, plan, offset, runs, speed_start,
                    answered >>

\* "[1/3] Spectral data already migrated, skipping..."
SkipSpectra ==
    /\ pc = "spectra"
    /\ script = "migrate_all_data"
    /\ spectra_to_migrate <= 0
    /\ Goto("flags")
    /\ UNCHANGED << source, pg_committed, pg_conn, plan, todo, counters, history >>

\* One turn of the insert loop.
InsertSpectrum ==
    /\ pc = "insert"
    /\ todo # <<>>
    /\ LET spec_id == Head(todo) IN
        /\ pg_conn' = [pg_conn EXCEPT !.spectra =
                          InsertIfAbsent(@, spec_id, sqlite_spectra[spec_id])]
        /\ IF SpectrumExists(pg_conn.spectra, spec_id)
           THEN /\ skipped_count' = skipped_count + 1
                /\ UNCHANGED inserted_count
           ELSE /\ inserted_count' = inserted_count + 1
                /\ UNCHANGED skipped_count
    /\ todo' = Tail(todo)
    /\ Goto("insert")
    /\ UNCHANGED << source, pg_committed, plan, updated_count, offset, history >>

\* After the insert loop: migrate_all_data.py commits and has the rest of its
\* try block to go, migrate_spectra.py goes on to the marker flags inside the
\* same transaction.
FinishSpectra ==
    /\ pc = "insert"
    /\ todo = <<>>
    /\ pg_committed' = IF script = "migrate_all_data" THEN pg_conn ELSE pg_committed
    /\ Goto(IF script = "migrate_all_data" THEN "insert_done" ELSE "flag_fetch")
    /\ UNCHANGED << source, pg_conn, plan, todo, counters, history >>

\* "[2/3] Updating marker spectrum flags...": the print of migrate_all_data.py
\* between its first two try blocks; the second try block is entered.
BeginFlags ==
    /\ pc = "flags"
    /\ Goto("flag_fetch")
    /\ UNCHANGED << source, pg_committed, pg_conn, plan, todo, counters, history >>

\* BEGIN (migrate_all_data.py) and SELECT id FROM markers WHERE has_spectrum = 1:
\* no ORDER BY, the rows come in the order the source picks.
FetchFlaggedMarkers ==
    /\ pc = "flag_fetch"
    /\ todo' \in Orders(SqliteFlaggedMarkers)
    /\ updated_count' = 0
    /\ phase_start' = pg_conn
    /\ io' = io \cup {"sqlite_query"}
    /\ Goto("flag_loop")
    /\ UNCHANGED << source, pg_committed, pg_conn, plan, inserted_count, skipped_count,
                    offset, runs, speed_start, answered >>

\* One turn of the flag loop.
UpdateMarkerFlag ==
    /\ pc = "flag_loop"
    /\ todo # <<>>
    /\ LET marker_id == Head(todo)
           after == IF script = "migrate_all_data"
                    THEN SetFlagWhereFalse(pg_conn.markers, marker_id)
                    ELSE SetFlag(pg_conn.markers, marker_id)
           rowcount == IF script = "migrate_all_data"
                       THEN (IF after # pg_conn.markers THEN 1 ELSE 0)
                       ELSE 1
       IN /\ pg_conn' = [pg_conn EXCEPT !.markers = after]
          /\ updated_count' = IF rowcount > 0 THEN updated_count + 1 ELSE updated_count
    /\ todo' = Tail(todo)
    /\ Goto("flag_loop")
    /\ UNCHANGED << source, pg_committed, plan, inserted_count, skipped_count, offset,
                    history >>

\* pg_conn.commit() after the flag loop; the rest of the try block follows.
CommitFlags ==
    /\ pc = "flag_loop"
    /\ todo = <<>>
    /\ pg_committed' = pg_conn
    /\ Goto("flags_done")
    /\ UNCHANGED << source, pg_conn, plan, todo, counters, history >>

\* "[3/3] Migrating speed data": offset = 0, total_updated = 0.
BeginSpeed ==
    /\ pc = "speed"
    /\ speed_to_migrate > 0
    /\ offset' = 0
    /\ speed_start' = pg_conn.markers
    /\ Goto("speed_loop")
    /\ UNCHANGED << source, pg_committed, pg_conn, plan, todo, inserted_count,
                    skipped_count, updated_count, runs, phase_start, io, answered >>

\* "[3/3] Speed data already migrated, skipping..."
SkipSpeed ==
    /\ pc = "speed"
    /\ speed_to_migrate <= 0
    /\ Goto("verify")
    /\ UNCHANGED << source, pg_committed, pg_conn, plan, todo, counters, history >>

\* Fetch the batch at offset and BEGIN; the batch is not empty.
FetchBatch ==
    /\ pc = "speed_loop"
    /\ SpeedBatch(offset) # <<>>
    /\ todo' = SpeedBatch(offset)
    /\ Goto("speed_batch")
    /\ UNCHANGED << source, pg_committed, pg_conn, plan, counters, history >>

\* A slip in the transaction of a batch: the connection is in autocommit mode,
\* so every statement execute_values sends is committed at once.
UpdatePageAutocommit ==
    /\ pc = "speed_batch"
    /\ todo # <<>>
    /\ pg_conn' = [pg_conn EXCEPT !.markers = UpdateSpeedBatch(@, FirstPage(todo))]
    /\ pg_committed' = pg_conn'
    /\ todo' = AfterFirstPage(todo)
    /\ Goto("speed_batch")
    /\ UNCHANGED << source, plan, counters, history >>

\* execute_values sends the next page of the batch: one guarded bulk UPDATE
\* inside the transaction of the batch.
UpdatePage ==
    /\ pc = "speed_batch"
    /\ todo # <<>>
    /\ pg_conn' = [pg_conn EXCEPT !.markers = UpdateSpeedBatch(@, FirstPage(todo))]
    /\ todo' = AfterFirstPage(todo)
    /\ Goto("speed_batch")
    /\ UNCHANGED << source, pg_committed, plan, counters, history >>

\* pg_conn.commit() of the batch once execute_values has returned;
\* offset += BATCH_SIZE.
CommitBatch ==
    /\ pc = "speed_batch"
    /\ todo = <<>>
    /\ pg_committed' = pg_conn
    /\ offset' = offset + BATCH_SIZE
    /\ batches_committed' = batches_committed + 1
    /\ Goto("speed_loop")
    /\ UNCHANGED << source, pg_conn, plan, todo, inserted_count, skipped_count,
                    updated_count, run, run_start, phase_start, speed_start, discarded,
                    prev, io, swallowed, answered >>

\* if not batch: break
SpeedDone ==
    /\ pc = "speed_loop"
    /\ SpeedBatch(offset) = <<>>
    /\ Goto("verify")
    /\ UNCHANGED << source, pg_committed, pg_conn, plan, todo, counters, history >>

\* One turn of the loop of update_spectra_columns.py.  The conversion runs
\* inside a bare except, which catches whatever is raised there: the
\* ValueError of a text that does not parse, and also the KeyboardInterrupt of
\* a Ctrl-C that arrives during the conversion.  Either way the row is
\* skipped and the loop goes on; any other row overwrites the target row with
\* its id, whatever the conversion gave (a list, or the bytes or the number it
\* passed on).  The UPDATE that raises instead, as it does when the type of
\* the target column refuses the value, is a case of Fail.
UpdateSpectrumRow ==
    /\ pc = "update_loop"
    /\ todo # <<>>
    /\ \E ctrl_c \in BOOLEAN :
        LET spec_id == Head(todo)
            row == sqlite_spectra[spec_id]
            parsed == ParseChannels(row.channels)
        IN /\ swallowed' = (swallowed \/ ctrl_c)
           /\ IF ctrl_c \/ ~parsed.ok
              THEN UNCHANGED << pg_conn, updated_count >>
              ELSE /\ pg_conn' = [pg_conn EXCEPT !.spectra =
                                     UpdateSpectrum(@, spec_id, parsed.value,
                                                    row.channel_count)]
                   /\ updated_count' = IF spec_id \in DOMAIN pg_conn.spectra
                                       THEN updated_count + 1 ELSE updated_count
    /\ todo' = Tail(todo)
    /\ Goto("update_loop")
    /\ UNCHANGED << source, pg_committed, plan, inserted_count, skipped_count, offset,
                    run, batches_committed, run_start, discarded, prev, phase_start,
                    speed_start, io, answered >>

\* pg_conn.commit() after the update loop; the rest of the try block follows.
CommitUpdate ==
    /\ pc = "update_loop"
    /\ todo = <<>>
    /\ pg_committed' = pg_conn
    /\ Goto("update_done")
    /\ UNCHANGED << source, pg_conn, plan, todo, counters, history >>

\* The statements between a commit and the end of its try block (the prints
\* of what was committed) have run: main() leaves the try block.
AfterCommit ==
    /\ pc \in {"insert_done", "flags_done", "update_done"}
    /\ Goto(CASE pc = "insert_done" -> "flags"
              [] pc = "flags_done" ->
                   IF script = "migrate_all_data" THEN "speed" ELSE "verify"
              [] pc = "update_done" -> "verify")
    /\ UNCHANGED << source, pg_committed, pg_conn, plan, todo, counters, history >>

\* The shortfall test of the final verification (1% tolerance on speed).
Shortfall ==
    CASE script = "migrate_all_data" ->
           \/ CountSpectra(pg_conn.spectra) < CountSpectra(sqlite_spectra)
           \/ 100 * CountMarkersSpeed(pg_conn.markers)
                 < 99 * CountMarkersSpeed(sqlite_markers)
      [] script = "migrate_spectra" ->
           CountSpectra(pg_conn.spectra) < CountSpectra(sqlite_spectra)
      [] script = "update_spectra_columns" -> FALSE

\* Final counts, close both connections, print success or the warning, and
\* return from main().
Verify ==
    /\ pc = "verify"
    /\ Exit(0, IF Shortfall THEN "warnings" ELSE "success")

\* The positions of main() inside a try block whose handler rolls back; the
\* _done positions are those after the commit of the block.  The position
\* flags of migrate_all_data.py, between two try blocks, is not among them.
InTry ==
    CASE script = "migrate_all_data" ->
           pc \in {"insert", "insert_done", "flag_fetch", "flag_loop", "flags_done",
                   "speed_loop", "speed_batch"}
      [] script = "migrate_spectra" ->
           pc \in {"insert", "flag_fetch", "flag_loop", "flags_done"}
      [] script = "update_spectra_columns" -> pc \in {"update_loop", "update_done"}

\* pg_conn.rollback(): the durable state of the target afterwards, given the
\* committed state and the connection's view of it.
Rollback(committed, conn) == committed

\* A statement inside a try block raises: pg_conn.rollback(), sys.exit(1); the
\* status is 120 when the output cannot be flushed on the way out.
Fail ==
    /\ InTry
    /\ pc' = "exited"
    /\ \E flushed \in BOOLEAN : exit_code' = ExitStatus(1, flushed)
    /\ outcome' = "error"
    /\ stopped_at' = pc
    /\ pg_committed' = Rollback(pg_committed, pg_conn)
    /\ pg_conn' = Rollback(pg_committed, pg_conn)
    /\ discarded' = (pg_conn # pg_committed)
    /\ todo' = <<>>
    /\ inserted_count' = 0
    /\ skipped_count' = 0
    /\ updated_count' = 0
    /\ offset' = 0
    /\ spectra_to_migrate' = 0
    /\ speed_to_migrate' = 0
    /\ UNCHANGED << source, run, batches_committed, run_start, phase_start, speed_start,
                    prev, io, swallowed, answered >>

\* What the step at a position outside the try blocks does to the stores.
StepEvents(at) ==
    CASE at = "start" -> {"sqlite_connect"}
      [] at \in {"analyze_sqlite", "spectra", "speed"} -> {"sqlite_query"}
      [] at \in {"analyze_pg", "verify"} -> {"pg_query"}
      [] OTHER -> {}

\* A statement outside every try block raises (a query, input() at end of
\* input, a print whose unbuffered output cannot be written): Python prints the
\* traceback and the process ends with status 1, or 120 when its output cannot
\* be flushed, before or after the step had reached the store.
Crash ==
    /\ pc # "exited"
    /\ ~InTry
    /\ \E did \in SUBSET StepEvents(pc) : ExitAfter(1, "exception", did)

\* The exit status of a process ended by a signal: 128 + the signal number.
SignalExit(sig) ==
    CASE sig = "SIGINT" -> 130
      [] sig = "SIGKILL" -> 137
      [] sig = "SIGTERM" -> 143

\* The process is terminated from outside, at any point, by a Ctrl-C that no
\* handler catches (the handlers of the try blocks are except Exception), by
\* SIGTERM or by SIGKILL: the server rolls back the open transaction.  The
\* process dies of the signal, whatever became of its output.
Kill ==
    /\ pc # "exited"
    /\ \E sig \in {"SIGINT", "SIGKILL", "SIGTERM"} :
        /\ Ended(SignalExit(sig), "killed", {})
        /\ UNCHANGED answered

\* What the next run remembers of this one.  A run in which a Ctrl-C was
\* caught and a row skipped for it is an interrupted run, however it ended.
HowEnded ==
    IF swallowed THEN "ctrl_c"
    ELSE IF outcome \in {"success", "warnings", "nothing_to_do"} THEN "completed"
    ELSE IF outcome \in {"error", "killed"} /\ stopped_at \in {"speed_loop", "speed_batch"}
    THEN "interrupted_speed"
    ELSE "other"

\* The operator runs the same script again, however the run before ended.
Rerun ==
    /\ pc = "exited"
    /\ run < MaxRuns
    /\ run' = run + 1
    /\ pc' = "start"
    /\ exit_code' = 0
    /\ outcome' = "running"
    /\ stopped_at' = "none"
    /\ prev' = [how |-> HowEnded, batches |-> batches_committed,
                changed |-> (pg_committed # run_start),
                start |-> IF HowEnded = "interrupted_speed"
                          THEN run_start ELSE pg_committed]
    /\ run_start' = pg_committed
    /\ phase_start' = pg_committed
    /\ speed_start' = pg_committed.markers
    /\ discarded' = FALSE
    /\ batches_committed' = 0
    /\ io' = {}
    /\ swallowed' = FALSE
    /\ answered' = {}
    /\ UNCHANGED << source, pg_committed, pg_conn, plan, todo, counters >>

Next ==
    \/ CheckSqliteDb
    \/ AnalyzeSqlite
    \/ ConnectPostgres
    \/ AnalyzePostgres
    \/ ConfirmRecheck
    \/ Confirm
    \/ FetchSpectra
    \/ SkipSpectra
    \/ InsertSpectrum
    \/ FinishSpectra
    \/ BeginFlags
    \/ FetchFlaggedMarkers
    \/ UpdateMarkerFlag
    \/ CommitFlags
    \/ BeginSpeed
    \/ SkipSpeed
    \/ FetchBatch
    \/ UpdatePage
    \/ CommitBatch
    \/ SpeedDone
    \/ UpdateSpectrumRow
    \/ CommitUpdate
    \/ AfterCommit
    \/ Verify
    \/ Fail
    \/ Crash
    \/ Kill
    \/ Rerun

Spec == Init /\ [][Next]_vars

\* ------------------------------------------------- a run from start to end
\* The insert loop over the rows ids, from first to last.
RECURSIVE InsertAll(_, _)
InsertAll(spectra, ids) ==
    IF ids = <<>> THEN spectra
    ELSE InsertAll(InsertIfAbsent(spectra, Head(ids), sqlite_spectra[Head(ids)]),
                   Tail(ids))

\* The flag loop of migrate_all_data.py over the markers ids.
RECURSIVE FlagAll(_, _)
FlagAll(markers, ids) ==
    IF ids = <<>> THEN markers
    ELSE FlagAll(SetFlagWhereFalse(markers, Head(ids)), Tail(ids))

\* The batch loop of migrate_all_data.py from OFFSET off to the empty batch.
RECURSIVE SpeedAll(_, _)
SpeedAll(markers, off) ==
    IF SpeedBatch(off) = <<>> THEN markers
    ELSE SpeedAll(UpdateSpeedBatch(markers, SpeedBatch(off)), off + BATCH_SIZE)

\* The target after a confirmed run of migrate_all_data.py that starts from
\* db, gets past the pre-flight exits and is neither interrupted nor failing.
UninterruptedRun(db) ==
    LET stm == CountSpectra(sqlite_spectra) - CountSpectra(db.spectra)
        vtm == CountMarkersSpeed(sqlite_markers) - CountMarkersSpeed(db.markers)
        flagged == FlagAll(db.markers, SortedSeq(SqliteFlaggedMarkers))
    IN [spectra |-> IF stm > 0
                    THEN InsertAll(db.spectra, SortedSeq(DOMAIN sqlite_spectra))
                    ELSE db.spectra,
        markers |-> IF vtm > 0 THEN SpeedAll(flagged, 0) ELSE flagged]

\* ------------------------------------------------------------------ claims
Finished == pc = "exited" /\ outcome \in {"success", "warnings"}
Copying == script \in {"migrate_all_data", "migrate_spectra"}

\* C1: after a confirmed run of migrate_all_data.py or migrate_spectra.py that
\* ends without error, every spectrum id of the source is in the target with
\* the same id and the same marker_id, whatever the target held before.
C1_SpectraCopied ==
    (Finished /\ Copying) =>
        \A id \in DOMAIN sqlite_spectra :
            /\ id \in DOMAIN pg_committed.spectra
            /\ pg_committed.spectra[id].marker_id = sqlite_spectra[id].marker_id

\* C2: after a confirmed error-free run of migrate_all_data.py every marker
\* with a positive source speed and a NULL or zero target speed has the source
\* speed, and every target speed that was positive is what it was, whatever
\* the counts of the target were before the run.
C2_SpeedCopied ==
    (Finished /\ script = "migrate_all_data") =>
        \A m \in DOMAIN run_start.markers :
            /\ (/\ m \in DOMAIN sqlite_markers
                /\ HasSpeed(sqlite_markers[m].speed)
                /\ ~HasSpeed(run_start.markers[m].speed))
               => pg_committed.markers[m].speed = sqlite_markers[m].speed
            /\ HasSpeed(run_start.markers[m].speed)
               => pg_committed.markers[m].speed = run_start.markers[m].speed

\* C3: after a confirmed error-free run of a copying script every marker
\* flagged has_spectrum in the source that has a row in the target is flagged
\* there, whatever the flag was (false, NULL, true) and also when the source
\* holds no spectra and no speed; and no run turns a true flag to false.
C3_FlagsCopied ==
    Copying =>
        /\ (pc = "exited" /\ outcome \in {"success", "warnings", "nothing_to_do"})
           => \A m \in SqliteFlaggedMarkers \cap DOMAIN pg_committed.markers :
                  pg_committed.markers[m].has_spectrum = Some(TRUE)
        /\ \A m \in DOMAIN run_start.markers :
               run_start.markers[m].has_spectrum = Some(TRUE)
               => pg_conn.markers[m].has_spectrum = Some(TRUE)

\* C4: idempotence.  Once a run of a script has completed, no Ctrl-C having
\* reached it, a second run of the same script over the same source changes
\* nothing in the target: no spectrum is added and no flag, speed or spectrum
\* column changes, at any point of the second run.
C4_Idempotent ==
    prev.how = "completed" => (pg_conn = run_start /\ pg_committed = run_start)

\* A second run has completed after a first run that changed the target.
C4_Witness ==
    /\ run >= 2
    /\ prev.how = "completed"
    /\ prev.changed
    /\ Finished

\* C5: if the speed phase of migrate_all_data.py is interrupted after K of its
\* N batches, a completed re-run ends in the state a single uninterrupted run
\* from the same initial state ends in.
C5_Resumable ==
    (Finished /\ script = "migrate_all_data" /\ prev.how = "interrupted_speed")
        => pg_committed = UninterruptedRun(prev.start)

\* C6: a column of a target row that is populated when a run starts (a true
\* flag, a positive speed, non-null channels, a non-zero channel count) holds
\* the same value whatever the run commits.
C6_PopulatedKept ==
    /\ \A m \in DOMAIN run_start.markers :
        /\ HasSpeed(run_start.markers[m].speed)
           => pg_committed.markers[m].speed = run_start.markers[m].speed
        /\ run_start.markers[m].has_spectrum = Some(TRUE)
           => pg_committed.markers[m].has_spectrum = Some(TRUE)
    /\ \A id \in DOMAIN run_start.spectra :
        /\ run_start.spectra[id].channels # PyNone
           => pg_committed.spectra[id].channels = run_start.spectra[id].channels
        /\ (/\ ~IsNull(run_start.spectra[id].channel_count)
            /\ run_start.spectra[id].channel_count # Some(0))
           => pg_committed.spectra[id].channel_count
                  = run_start.spectra[id].channel_count

\* The source rows whose channels text json.loads rejects, the rows
\* update_spectra_columns.py fetches, and those its loop has passed.
Unparseable ==
    {s \in DOMAIN sqlite_spectra :
        /\ sqlite_spectra[s].channels.kind = "str"
        /\ ~json_loads(sqlite_spectra[s].channels.text).ok}
Fetched == {s \in DOMAIN sqlite_spectra : sqlite_spectra[s].channels # PyNone}
AfterUpdateLoop(at) == at \in {"update_done", "verify"}
Visited ==
    IF script # "update_spectra_columns" THEN {}
    ELSE IF pc = "update_loop" THEN Fetched \ {todo[k] : k \in 1..Len(todo)}
    ELSE IF AfterUpdateLoop(pc) \/ (pc = "exited" /\ AfterUpdateLoop(stopped_at))
    THEN Fetched
    ELSE {}
\* An exception was raised at a row of the update loop and caught there: a
\* text that does not parse, or a Ctrl-C.
CaughtAtRow == swallowed \/ Visited \cap Unparseable # {}

\* C7: an error at any row of the insert phase, the flag phase or the channel
\* update phase rolls back every write of that phase: the table the phase
\* writes is as it was when the phase began, nothing of a later phase is in
\* the target, the connection holds nothing uncommitted and the exit code is
\* not zero.  An error at a row is one that reaches the handler of the try
\* block of the phase before its commit, or one raised and caught at a row of
\* the channel update loop.
C7_NoPartialCommit ==
    /\ (pc = "exited" /\ outcome = "error") =>
          /\ exit_code # 0
          /\ pg_conn = pg_committed
          /\ stopped_at = "insert" => pg_committed = phase_start
          /\ stopped_at \in {"flag_fetch", "flag_loop"}
             => pg_committed.markers = phase_start.markers
          /\ stopped_at = "update_loop" => pg_committed = phase_start
    /\ CaughtAtRow =>
          /\ pg_committed = phase_start
          /\ pc = "exited" => exit_code # 0

\* C8: a run that succeeds, succeeds with a shortfall warning or finds nothing
\* to do ends with exit code 0; a run that finds no source file, cannot
\* connect to the target or in which an error occurs inside a transaction
\* (whether it reaches the handler of the try block or is caught at the row)
\* ends with a non-zero exit code.
C8_ExitCodes ==
    pc = "exited" =>
        /\ outcome \in {"success", "warnings", "nothing_to_do"} => exit_code = 0
        /\ (outcome \in {"source_missing", "connect_failed", "error"} \/ CaughtAtRow)
           => exit_code # 0

\* C9: when the insert loop of a copying script has visited every source
\* spectrum, the rows the target held are unchanged, every source id that was
\* absent has been inserted once with the source row, inserted_count is the
\* number of source ids that were absent, skipped_count the number that were
\* present, and the two add up to the number of source spectra.
C9_CopyMissing ==
    (Copying /\ pc = "insert" /\ todo = <<>>) =>
        LET src == DOMAIN sqlite_spectra
            before == phase_start.spectra
        IN /\ inserted_count = Cardinality(src \ DOMAIN before)
           /\ skipped_count = Cardinality(src \cap DOMAIN before)
           /\ inserted_count + skipped_count = Cardinality(src)
           /\ DOMAIN pg_conn.spectra = DOMAIN before \cup src
           /\ \A id \in DOMAIN before : pg_conn.spectra[id] = before[id]
           /\ \A id \in src \ DOMAIN before : pg_conn.spectra[id] = sqlite_spectra[id]

\* Source ids {1,2,3}, target id {2}: 2 inserted, 1 skipped.
C9_Witness ==
    /\ Copying
    /\ pc = "insert"
    /\ todo = <<>>
    /\ DOMAIN sqlite_spectra = {1, 2, 3}
    /\ DOMAIN phase_start.spectra = {2}
    /\ DOMAIN pg_conn.spectra = {1, 2, 3}
    /\ inserted_count = 2
    /\ skipped_count = 1

SameMarkerRows(before, after) ==
    /\ DOMAIN after = DOMAIN before
    /\ \A m \in DOMAIN before : after[m].rest = before[m].rest

C11_MarkersFrame ==
    /\ SameMarkerRows(run_start.markers, pg_committed.markers)
    /\ SameMarkerRows(run_start.markers, pg_conn.markers)
    /\ prev.how = "interrupted_speed"
           => SameMarkerRows(prev.start.markers, run_start.markers)

\* A run has ended after changing target markers, while a marker flagged in
\* the source has no target row.
C11_Witness ==
    /\ pc = "exited"
    /\ pg_committed.markers # run_start.markers
    /\ \E m \in SqliteFlaggedMarkers : m \notin DOMAIN run_start.markers

\* C12 as stated: a run that ends because the source file is missing has
\* attempted no connection, and a run that ends because the connection to the
\* target failed has issued no query against the source or the target.
C12_NoReadBeforeConnect ==
    /\ outcome = "source_missing" => io = {}
    /\ outcome = "connect_failed" => io \cap {"sqlite_query", "pg_query"} = {}

\* C12, amended: a run that ends because the source file is missing has
\* attempted no connection; a run that ends because the connection to the
\* target failed has issued no query against the target and has written
\* nothing, and it has issued no query against the source in
\* update_spectra_columns.py, whereas migrate_all_data.py and
\* migrate_spectra.py have read the source counts by then.
C12_PreflightOrder ==
    /\ outcome = "source_missing" => io = {}
    /\ outcome = "connect_failed" =>
           /\ "pg_query" \notin io
           /\ pg_committed = run_start
           /\ ~discarded
           /\ ("sqlite_query" \in io) = (script # "update_spectra_columns")

\* A second run of update_spectra_columns.py has ended on a failed connection
\* to the target, after a first run that wrote.
C12_Witness ==
    /\ outcome = "connect_failed"
    /\ script = "update_spectra_columns"
    /\ run = 2
    /\ prev.changed

\* C13: in the speed phase of migrate_all_data.py the batches are applied
\* whole and in ascending id order.  At every point of the phase, and after a
\* failure or a kill in it, the committed target is the target of the start of
\* the phase with the guarded update applied to the first j batches of the
\* source rows taken in ascending id order, j being the number of batches
\* committed, j <= N; inside batch j + 1 the transaction holds the rows of that
\* batch sent so far and none of them is committed; after a failure or a kill
\* in batch j + 1 nothing of it is left and the offset has not moved past it.
\* (A failure between the commit of a batch and the next fetch finds that
\* batch committed and counted in j.)
SpeedRows == SortedSeq({m \in DOMAIN sqlite_markers :
                           /\ ~IsNull(sqlite_markers[m].speed)
                           /\ sqlite_markers[m].speed[1] > 0})
BatchCount == (Len(SpeedRows) + BATCH_SIZE - 1) \div BATCH_SIZE
\* The guarded update applied to the first n source rows.
FirstRows(markers, n) ==
    LET done == {SpeedRows[k] : k \in 1..n}
    IN [m \in DOMAIN markers |->
           IF m \in done /\ markers[m].speed \in {NULL, Some(0)}
           THEN [markers[m] EXCEPT !.speed = sqlite_markers[m].speed]
           ELSE markers[m]]
\* The number of source rows in the first j batches.
RowsInBatches(j) ==
    IF j * BATCH_SIZE < Len(SpeedRows) THEN j * BATCH_SIZE ELSE Len(SpeedRows)
FirstBatches(markers, j) == FirstRows(markers, RowsInBatches(j))
InSpeedPhase(at) == at \in {"speed_loop", "speed_batch"}

C13_BatchesAtomic ==
    (script = "migrate_all_data"
        /\ (InSpeedPhase(pc) \/ (pc = "exited" /\ InSpeedPhase(stopped_at))))
    => /\ batches_committed <= BatchCount
       /\ pg_committed.markers = FirstBatches(speed_start, batches_committed)
       /\ pg_committed.spectra = pg_conn.spectra
       /\ pc = "speed_loop" =>
              /\ pg_conn = pg_committed
              /\ offset = batches_committed * BATCH_SIZE
       /\ pc = "speed_batch" =>
              /\ batches_committed < BatchCount
              /\ Len(todo) <= RowsInBatches(batches_committed + 1)
                                  - RowsInBatches(batches_committed)
              /\ pg_conn.markers
                    = FirstRows(speed_start,
                                RowsInBatches(batches_committed + 1) - Len(todo))
       /\ pc = "exited" => pg_conn = pg_committed

\* A failure in the second batch: the first batch is committed and what the
\* failing batch had written is gone.
C13_Witness ==
    /\ pc = "exited"
    /\ outcome = "error"
    /\ stopped_at = "speed_batch"
    /\ batches_committed = 1
    /\ BatchCount = 2
    /\ discarded
    /\ pg_committed.markers # speed_start

\* C14: when update_spectra_columns.py meets a source row whose channels
\* string does not parse and the run goes through to its end, no Ctrl-C
\* having reached the conversion of a row, the exit code is 0 and the
\* transaction is committed; the target row of the unparseable row is as the
\* run found it, and every other fetched source row with a target row has
\* been applied to it, its channels written as a parsed array.
C14_BadRowSkipped ==
    (script = "update_spectra_columns" /\ Finished /\ ~swallowed /\ Unparseable # {}) =>
        /\ exit_code = 0
        /\ ~discarded
        /\ \A s \in Fetched \cap DOMAIN run_start.spectra :
              IF s \in Unparseable
              THEN pg_committed.spectra[s] = run_start.spectra[s]
              ELSE /\ pg_committed.spectra[s].channel_count
                          = sqlite_spectra[s].channel_count
                   /\ pg_committed.spectra[s].channels.kind = "list"
====
